---- MODULE Spec2Model ----
(***************************************************************************)
(* A model of the trajectory core of rlm: the marker parser                *)
(* (rlm/utils/parsing.py), the trajectory formatter and execution result   *)
(* adapter (same file) and the usage ledger of the OpenAI client           *)
(* (rlm/clients/openai.py).                                                *)
(*                                                                         *)
(* Text is a sequence of symbols.  A symbol is one character, except that  *)
(* the literal tags the patterns look for (FINAL, FINAL_VAR, the fence,    *)
(* the fence tags) are one symbol each: a pattern can only match a tag     *)
(* whole, so a text that holds a part of a tag behaves as ordinary text.   *)
(***************************************************************************)
EXTENDS Integers, Sequences, FiniteSets, TLC

VARIABLES
    lines,       \* the model's response text, as the lines it is made of
    locals,      \* the bindings of the stateful execution session
    last,        \* the last call of find_final_answer: its inputs and outcome
    trace,       \* one session's snippets and final-answer detections, in order
    segments,    \* a response text with code fences, as the segments it is made of
    found,       \* the last result of find_code_blocks
    iteration,   \* the RLMIteration being put together: response and code blocks
    messages,    \* the last result of format_iteration
    rendered,    \* the last result of format_execution_result
    client,      \* the OpenAIClient's configuration
    model_call_counts,      \* the client's per-model usage tracking ...
    model_input_tokens,
    model_output_tokens,
    model_total_tokens,
    last_prompt_tokens,     \* ... and its last call's token counts
    last_completion_tokens,
    calls,       \* every call made on the client so far and how it ended
    summary,     \* the last result of get_usage_summary
    last_usage,  \* the last result of get_last_usage
    tasks        \* the acompletion calls in flight on one event loop

parserVars == <<lines, locals, last, trace>>
blockVars == <<segments, found>>
formatVars == <<iteration, messages, rendered>>
ledgerVars ==
    <<model_call_counts, model_input_tokens, model_output_tokens, model_total_tokens,
      last_prompt_tokens, last_completion_tokens>>
clientVars == <<client, ledgerVars, calls, summary, last_usage, tasks>>
vars ==
    <<lines, locals, last, trace, segments, found, iteration, messages, rendered,
      client, model_call_counts, model_input_tokens, model_output_tokens,
      model_total_tokens, last_prompt_tokens, last_completion_tokens, calls, summary,
      last_usage, tasks>>

----------------------------------------------------------------------------
(* Optional values: Python's None and a present value. *)
None == <<>>
Some(v) == <<v>>

(* Symbols *)
NL == "\n"
SP == " "
FinalTag == "FINAL("
FinalVarTag == "FINAL_VAR("
ClosePar == ")"
OpenPar == "("
SQuote == "'"
DQuote == "\""

(* The regular expression class \s and str.strip()'s whitespace. *)
IsSpace(c) == c \in {SP, NL}

RECURSIVE Concat(_)
(* str.join with the empty separator *)
Concat(parts) ==
    IF parts = <<>> THEN <<>> ELSE Head(parts) \o Concat(Tail(parts))

RECURSIVE Join(_, _)
(* sep.join(parts) *)
Join(sep, parts) ==
    IF Len(parts) = 0 THEN <<>>
    ELSE IF Len(parts) = 1 THEN parts[1]
    ELSE parts[1] \o sep \o Join(sep, Tail(parts))

(* s[i:j] on 1-based inclusive bounds *)
Slice(s, i, j) == IF j < i THEN <<>> ELSE SubSeq(s, i, j)

(* str.strip(chars): drops every leading and trailing symbol that is in chars *)
StripChars(s, chars) ==
    LET keep == {i \in 1..Len(s) : s[i] \notin chars}
    IN  IF keep = {} THEN <<>>
        ELSE LET lo == CHOOSE i \in keep : \A k \in keep : i <= k
                 hi == CHOOSE i \in keep : \A k \in keep : k <= i
             IN  SubSeq(s, lo, hi)

(* str.strip() *)
Strip(s) == StripChars(s, {SP, NL})

Min(S) == CHOOSE i \in S : \A k \in S : i <= k
Max(S) == CHOOSE i \in S : \A k \in S : k <= i

(* Positions where ^ matches under re.MULTILINE: the start of the text and
   right after every newline. *)
LineStarts(t) == {i \in 1..(Len(t) + 1) : i = 1 \/ t[i - 1] = NL}

(* Positions where $ matches under re.MULTILINE: the end of the text and
   right before every newline. *)
LineEnds(t) == {i \in 1..(Len(t) + 1) : i = Len(t) + 1 \/ t[i] = NL}

(* A marker search that forgets the line anchor. *)
AnchoredAnywhere(t, j) == TRUE

(* ^\s* followed by a tag at position j: some line start s <= j with only
   whitespace (newlines included) between s and j. *)
AnchoredAt(t, j) ==
    \E s \in LineStarts(t) : s <= j /\ \A p \in s..(j - 1) : IsSpace(t[p])

----------------------------------------------------------------------------
(* re.search of final_var_pattern with re.MULTILINE and re.DOTALL: a line
   start, whitespace, the tag FINAL_VAR with its opening parenthesis, a lazy
   group of any symbols, a closing parenthesis.
   The search takes the leftmost start that matches; \s* is followed by a
   non-space symbol, so the tag's position is fixed by the start, and the
   lazy group ends at the first closing parenthesis after the tag. The result
   is None or Some of group(1). *)
SearchFinalVar(t) ==
    LET tags == {j \in 1..Len(t) :
                    /\ t[j] = FinalVarTag
                    /\ AnchoredAt(t, j)
                    /\ \E k \in (j + 1)..Len(t) : t[k] = ClosePar}
    IN  IF tags = {} THEN None
        ELSE LET j == Min(tags)
                 k == Min({k \in (j + 1)..Len(t) : t[k] = ClosePar})
             IN  Some(Slice(t, j + 1, k - 1))

(* re.search of final_pattern with re.MULTILINE and re.DOTALL: a line start,
   whitespace, the tag FINAL with its opening parenthesis, a greedy group of
   any symbols, a closing parenthesis, whitespace, a line end.
   Leftmost start; the greedy group (which DOTALL lets run across lines) ends
   at the last closing parenthesis that only whitespace separates from a
   line end. *)
ClosesLine(t, k) ==
    /\ t[k] = ClosePar
    /\ \E e \in LineEnds(t) : e > k /\ \A p \in (k + 1)..(e - 1) : IsSpace(t[p])

(* A literal search with a lazy group: it ends at the first closing
   parenthesis that closes a line. *)
SearchFinalLazy(t) ==
    LET tags == {j \in 1..Len(t) :
                    /\ t[j] = FinalTag
                    /\ AnchoredAt(t, j)
                    /\ \E k \in (j + 1)..Len(t) : t[k] = ClosePar}
    IN  IF tags = {} THEN None
        ELSE LET j == Min(tags)
                 k == Min({k \in (j + 1)..Len(t) : t[k] = ClosePar})
             IN  Some(Slice(t, j + 1, k - 1))

(* A literal search whose group stays on the marker's line, as without
   re.DOTALL: it ends at the last closing parenthesis of that line. *)
SearchFinalOwnLine(t) ==
    LET sameLine(j, k) == \A p \in j..k : t[p] # NL
        tags == {j \in 1..Len(t) :
                    /\ t[j] = FinalTag
                    /\ AnchoredAt(t, j)
                    /\ \E k \in (j + 1)..Len(t) : t[k] = ClosePar /\ sameLine(j, k)
                                                   /\ ClosesLine(t, k)}
    IN  IF tags = {} THEN None
        ELSE LET j == Min(tags)
                 k == Max({k \in (j + 1)..Len(t) :
                              t[k] = ClosePar /\ sameLine(j, k) /\ ClosesLine(t, k)})
             IN  Some(Slice(t, j + 1, k - 1))

SearchFinal(t) ==
    LET tags == {j \in 1..Len(t) :
                    /\ t[j] = FinalTag
                    /\ AnchoredAt(t, j)
                    /\ \E k \in (j + 1)..Len(t) : ClosesLine(t, k)}
    IN  IF tags = {} THEN None
        ELSE LET j == Min(tags)
                 k == Max({k \in (j + 1)..Len(t) : ClosesLine(t, k)})
             IN  Some(Slice(t, j + 1, k - 1))

----------------------------------------------------------------------------
(* The execution collaborator (rlm.environments: LocalREPL.execute_code),
   for the one statement find_final_answer sends it. *)

Backslash == "\\"
PrintOpen == "print(FINAL_VAR("
PrintClose == "))"

(* repr of a str: single quotes, unless the text holds a single quote and no
   double quote; the quote in use, the backslash and the newline are escaped. *)
ReprQuote(s) ==
    IF (\E i \in 1..Len(s) : s[i] = SQuote) /\ ~(\E i \in 1..Len(s) : s[i] = DQuote)
    THEN DQuote ELSE SQuote

RECURSIVE ReprBody(_, _)
ReprBody(s, q) ==
    IF s = <<>> THEN <<>>
    ELSE (IF Head(s) = NL THEN <<Backslash, "n">>
          ELSE IF Head(s) = q \/ Head(s) = Backslash THEN <<Backslash, Head(s)>>
          ELSE <<Head(s)>>) \o ReprBody(Tail(s), q)

Repr(s) == <<ReprQuote(s)>> \o ReprBody(s, ReprQuote(s)) \o <<ReprQuote(s)>>

(* The interpreter's reading of a string literal. *)
RECURSIVE Unescape(_)
Unescape(s) ==
    IF s = <<>> THEN <<>>
    ELSE IF Head(s) = Backslash /\ Len(s) >= 2
         THEN (IF s[2] = "n" THEN <<NL>> ELSE <<s[2]>>) \o Unescape(Tail(Tail(s)))
         ELSE <<Head(s)>> \o Unescape(Tail(s))

EvalStrLiteral(lit) == Unescape(Slice(lit, 2, Len(lit) - 1))

NotFoundText == "Error: Variable not found"

(* execute_code of print(FINAL_VAR(<literal>)) in a session with bindings b:
   the printed value of the variable, or a textual error on the stream the
   session reports errors on; it never raises. *)
execute_code(env, code) ==
    LET name == EvalStrLiteral(Slice(code, 2, Len(code) - 1))
    IN  IF name \in DOMAIN env.bindings
        THEN [stdout |-> env.bindings[name] \o <<NL>>, stderr |-> <<>>]
        ELSE IF env.errors = "stdout"
        THEN [stdout |-> <<NotFoundText, NL>>, stderr |-> <<>>]
        ELSE [stdout |-> <<>>, stderr |-> <<NotFoundText, NL>>]

----------------------------------------------------------------------------
(* find_final_answer(text, environment): environment is None or Some(env).
   The outcome is the returned value (None or Some(answer)) and the code
   texts sent to environment.execute_code, in order. *)
FinalVarOutcome(match, environment) ==
    LET variable_name ==
            StripChars(StripChars(Strip(match[1]), {DQuote}), {SQuote})
        code == <<PrintOpen>> \o Repr(variable_name) \o <<PrintClose>>
        result == execute_code(environment[1], code)
    IN  [value |-> Some(IF Strip(result.stdout) = <<>>
                        THEN Strip(result.stderr)
                        ELSE Strip(result.stdout)),
         requests |-> <<code>>]

LiteralOutcome(text) ==
    IF SearchFinal(text) # None
    THEN [value |-> Some(Strip(SearchFinal(text)[1])), requests |-> <<>>]
    ELSE [value |-> None, requests |-> <<>>]

(* find_final_answer looking for the literal form before the reference form. *)
find_final_answer_LiteralFirst(text, environment) ==
    IF SearchFinal(text) # None THEN LiteralOutcome(text)
    ELSE IF SearchFinalVar(text) # None /\ environment # None
    THEN FinalVarOutcome(SearchFinalVar(text), environment)
    ELSE [value |-> None, requests |-> <<>>]

(* find_final_answer falling back to the literal form when the reference
   form is found and no environment is given. *)
find_final_answer_FallsBack(text, environment) ==
    IF SearchFinalVar(text) # None /\ environment # None
    THEN FinalVarOutcome(SearchFinalVar(text), environment)
    ELSE LiteralOutcome(text)

(* find_final_answer reading the standard output only. *)
find_final_answer_StdoutOnly(text, environment) ==
    IF SearchFinalVar(text) # None
    THEN IF environment # None
         THEN LET o == FinalVarOutcome(SearchFinalVar(text), environment)
                  code == o.requests[1]
              IN  [o EXCEPT !.value =
                       Some(Strip(execute_code(environment[1], code).stdout))]
         ELSE [value |-> None, requests |-> <<>>]
    ELSE LiteralOutcome(text)

(* find_final_answer taking the argument of FINAL_VAR as it is written,
   quotes and all, for the name of the variable. *)
find_final_answer_KeepsQuotes(text, environment) ==
    LET match == SearchFinalVar(text)
    IN  IF match # None
        THEN LET variable_name ==
                     Strip(match[1])
                 code == <<PrintOpen>> \o Repr(variable_name) \o <<PrintClose>>
             IN  IF environment # None
                 THEN LET result == execute_code(environment[1], code)
                          final_answer ==
                              IF Strip(result.stdout) = <<>>
                              THEN Strip(result.stderr)
                              ELSE Strip(result.stdout)
                      IN  [value |-> Some(final_answer), requests |-> <<code>>]
                 ELSE [value |-> None, requests |-> <<>>]
        ELSE LET lit == SearchFinal(text)
             IN  IF lit # None
                 THEN [value |-> Some(Strip(lit[1])), requests |-> <<>>]
                 ELSE [value |-> None, requests |-> <<>>]

find_final_answer(text, environment) ==
    LET match == SearchFinalVar(text)
    IN  IF match # None
        THEN LET variable_name ==
                     StripChars(StripChars(Strip(match[1]), {DQuote}), {SQuote})
                 code == <<PrintOpen>> \o Repr(variable_name) \o <<PrintClose>>
             IN  IF environment # None
                 THEN LET result == execute_code(environment[1], code)
                          final_answer ==
                              IF Strip(result.stdout) = <<>>
                              THEN Strip(result.stderr)
                              ELSE Strip(result.stdout)
                      IN  [value |-> Some(final_answer), requests |-> <<code>>]
                 ELSE [value |-> None, requests |-> <<>>]
        ELSE LET lit == SearchFinal(text)
             IN  IF lit # None
                 THEN [value |-> Some(Strip(lit[1])), requests |-> <<>>]
                 ELSE [value |-> None, requests |-> <<>>]

(* check_for_final_answer(response, repl_env, logger) *)
check_for_final_answer(response, repl_env) == find_final_answer(response, repl_env)

----------------------------------------------------------------------------
(* The response text.  The model's response is kept as the lines it is made
   of, so that a property can speak of the markers the text was written
   with; the parser only ever sees Text(lines), the flat text. *)

MaxLines == 2
MaxPayload == 5

Line(prefix, kind, body, tail, name) ==
    [prefix |-> prefix, kind |-> kind, body |-> body, tail |-> tail, name |-> name]

RenderLine(l) ==
    l.prefix
    \o (CASE l.kind = "ref" -> <<FinalVarTag>> \o l.body \o <<ClosePar>>
          [] l.kind = "lit" -> <<FinalTag>> \o l.body \o <<ClosePar>>
          [] OTHER -> l.body)
    \o l.tail

Text(ls) == Join(<<NL>>, [i \in 1..Len(ls) |-> RenderLine(ls[i])])

(* What the model may write before a marker on its line: nothing, leading
   whitespace, or other text (which makes the marker a mid-line one). *)
Prefixes == {<<>>, <<SP>>, <<"a">>}

(* FINAL_VAR(...) arguments, each with the variable it names. *)
RefBodies ==
    { <<<<"x">>, <<"x">>>>,
      <<<<SQuote, "x", SQuote>>, <<"x">>>>,
      <<<<DQuote, "x", DQuote>>, <<"x">>>> }

(* FINAL(...) payloads. *)
LitBodies == { <<"y">>, <<"f", OpenPar, "y", ClosePar>>, <<SP, "y", SP>> }

PlainBodies == { <<>>, <<"b", ClosePar>> }

ResponseLines ==
    {Line(p, "ref", b[1], <<>>, b[2]) : p \in Prefixes, b \in RefBodies}
    \cup {Line(p, "lit", b, <<>>, <<>>) : p \in Prefixes, b \in LitBodies}
    \cup {Line(p, "plain", b, <<>>, <<>>) : p \in Prefixes, b \in PlainBodies}
    \cup {Line(<<>>, "lit", <<"y">>, t, <<>>) : t \in {<<SP>>, <<SP, "a">>}}
    \cup {Line(<<>>, "ref", <<"x">>, <<SP, "a">>, <<"x">>)}

(* Symbols of a FINAL(...) payload written on a single line. *)
PayloadSymbols == {"y", OpenPar, ClosePar, SP, ","}

(* Printed values a session variable can have. *)
Values == {<<"1">>, <<"2">>}
Names == {<<"x">>}
ErrorStreams == {"stdout", "stderr"}

NoBindings == [n \in {} |-> <<>>]

----------------------------------------------------------------------------
(* Actions *)

(* The model writes one more line of its response. *)
ModelWrites(l) ==
    /\ last = None
    /\ Len(lines) < MaxLines
    /\ lines' = Append(lines, l)
    /\ UNCHANGED <<locals, last, trace, blockVars, formatVars, clientVars>>

(* The model extends the payload of a single-line FINAL(...) response. *)
ModelWritesPayload(c) ==
    /\ last = None
    /\ Len(lines) = 1
    /\ lines[1].kind = "lit"
    /\ Len(lines[1].body) < MaxPayload
    /\ lines' = <<[lines[1] EXCEPT !.body = Append(@, c)]>>
    /\ UNCHANGED <<locals, last, trace, blockVars, formatVars, clientVars>>

(* environment.execute_code of a snippet binding a variable of the session. *)
ExecuteSnippet(n, v) ==
    /\ locals' = [m \in DOMAIN locals \cup {n} |-> IF m = n THEN v ELSE locals[m]]
    /\ locals' # locals
    /\ UNCHANGED <<lines, last, trace, blockVars, formatVars, clientVars>>

Call(text, environment) ==
    LET r == find_final_answer(text, environment)
    IN  Some([text |-> text, environment |-> environment,
              value |-> r.value, requests |-> r.requests])

(* find_final_answer(text): no environment. *)
FindFinalAnswer ==
    /\ last' = Call(Text(lines), None)
    /\ last' # last
    /\ UNCHANGED <<lines, locals, trace, blockVars, formatVars, clientVars>>

(* check_for_final_answer(response, repl_env, logger): the session is the
   executor. *)
CheckForFinalAnswer(e) ==
    /\ last' = Call(Text(lines), Some([bindings |-> locals, errors |-> e]))
    /\ last' # last
    /\ UNCHANGED <<lines, locals, trace, blockVars, formatVars, clientVars>>

NoBlocks == segments = <<>> /\ found = None

NoParsing == lines = <<>> /\ locals = NoBindings /\ last = None /\ trace = <<>>

NoIteration ==
    /\ iteration = [response |-> <<>>, code_blocks |-> <<>>]
    /\ messages = None
    /\ rendered = None

(* The usage tracking of a client right after __init__: empty defaultdicts,
   and no last call attributes yet. *)
FreshLedger ==
    /\ model_call_counts = NoBindings
    /\ model_input_tokens = NoBindings
    /\ model_output_tokens = NoBindings
    /\ model_total_tokens = NoBindings
    /\ last_prompt_tokens = None
    /\ last_completion_tokens = None
    /\ calls = <<>>
    /\ summary = None
    /\ last_usage = None
    /\ tasks = <<>>

NoClient == client = None /\ FreshLedger

Init ==
    /\ lines = <<>>
    /\ locals = NoBindings
    /\ last = None
    /\ trace = <<>>
    /\ NoBlocks
    /\ NoIteration
    /\ NoClient

Next ==
    \/ \E l \in ResponseLines : ModelWrites(l)
    \/ \E n \in Names, v \in Values : ExecuteSnippet(n, v)
    \/ FindFinalAnswer
    \/ \E e \in ErrorStreams : CheckForFinalAnswer(e)

Spec == Init /\ [][Next]_vars

(* Single-line responses FINAL(<payload>) with optional leading and trailing
   whitespace. *)
InitLiteral ==
    /\ \E p \in {<<>>, <<SP>>}, t \in {<<>>, <<SP>>} :
           lines = <<Line(p, "lit", <<>>, t, <<>>)>>
    /\ locals = NoBindings
    /\ last = None
    /\ trace = <<>>
    /\ NoBlocks
    /\ NoIteration
    /\ NoClient

NextLiteral ==
    \/ \E c \in PayloadSymbols : ModelWritesPayload(c)
    \/ FindFinalAnswer
    \/ \E e \in ErrorStreams : CheckForFinalAnswer(e)

SpecLiteral == InitLiteral /\ [][NextLiteral]_vars

----------------------------------------------------------------------------
(* One stateful session: snippets are executed in order, and final-answer
   detection runs, any number of times, over one response text with the
   session as executor. *)
MaxEvents == 4

(* Printed values of the session's variables: with and without whitespace
   around them, and the empty text. *)
SessionValues == {<<"1">>, <<SP, "2", NL>>, <<>>}
SessionNames == {<<"x">>, <<"z">>}

(* Response texts whose line-anchored marker is FINAL_VAR(x), alone or with
   other lines around it. *)
SessionTexts ==
    {<<Line(p, "ref", b[1], <<>>, b[2])>> : p \in {<<>>, <<SP>>}, b \in RefBodies}
    \cup {<<Line(<<>>, "plain", <<"b", ClosePar>>, <<>>, <<>>),
            Line(<<>>, "ref", b[1], <<>>, b[2])>> : b \in RefBodies}
    \cup {<<Line(<<>>, "ref", <<"x">>, <<SP, "a">>, <<"x">>),
            Line(<<>>, "lit", <<"y">>, <<>>, <<>>)>>}

(* environment.execute_code of a snippet that binds a variable. *)
SessionExecute(n, v) ==
    /\ Len(trace) < MaxEvents
    /\ locals' = [m \in DOMAIN locals \cup {n} |-> IF m = n THEN v ELSE locals[m]]
    /\ trace' = Append(trace, [kind |-> "execute", name |-> n, value |-> v])
    /\ UNCHANGED <<lines, last, blockVars, formatVars, clientVars>>

(* check_for_final_answer(response, repl_env, logger) in the session. *)
SessionDetect(e) ==
    /\ Len(trace) < MaxEvents
    /\ last' = Call(Text(lines), Some([bindings |-> locals, errors |-> e]))
    /\ trace' = Append(trace, [kind |-> "detect", name |-> <<>>, value |-> last'[1].value])
    /\ UNCHANGED <<lines, locals, blockVars, formatVars, clientVars>>

InitSession ==
    /\ lines \in SessionTexts
    /\ locals = NoBindings
    /\ last = None
    /\ trace = <<>>
    /\ NoBlocks
    /\ NoIteration
    /\ NoClient

NextSession ==
    \/ \E n \in SessionNames, v \in SessionValues : SessionExecute(n, v)
    \/ \E e \in ErrorStreams : SessionDetect(e)

SpecSession == InitSession /\ [][NextSession]_vars

----------------------------------------------------------------------------
(* find_code_blocks *)

(* The fence: three backquotes, one symbol. *)
Fence == "<fence>"
ReplTag == "repl"
OtherTag == "python"

(* One match of the pattern at start i: the fence, the tag repl, whitespace,
   a newline, a lazy group of any symbols, a newline, a fence.  n is the
   newline that ends the opening, m the newline before the closing fence.
   The greedy whitespace prefers the last n that lets the rest match, the
   lazy group the first m after it. *)
BlockCloses(t, n) == {m \in (n + 1)..(Len(t) - 1) : t[m] = NL /\ t[m + 1] = Fence}

BlockOpens(t, i) ==
    IF i + 1 <= Len(t) /\ t[i] = Fence /\ t[i + 1] = ReplTag
    THEN {n \in (i + 2)..Len(t) :
             /\ t[n] = NL
             /\ \A p \in (i + 2)..(n - 1) : IsSpace(t[p])
             /\ BlockCloses(t, n) # {}}
    ELSE {}

RECURSIVE FindIter(_, _)
(* re.finditer(pattern, text, re.DOTALL) from position pos on: the groups of
   the successive non-overlapping matches, each stripped. *)
FindIter(t, pos) ==
    LET starts == {i \in pos..Len(t) : BlockOpens(t, i) # {}}
    IN  IF starts = {} THEN <<>>
        ELSE LET i == Min(starts)
                 n == Max(BlockOpens(t, i))
                 m == Min(BlockCloses(t, n))
             IN  <<Strip(Slice(t, n + 1, m - 1))>> \o FindIter(t, m + 2)

find_code_blocks(text) == FindIter(text, 1)

(* A response with code fences, segment by segment.  A block is an opening
   fence line (the fence, the tag, optional trailing whitespace), its content
   lines, and a closing fence line; plain text is a line without fences. *)
MaxSegments == 3

Segment(kind, pad, inner) == [kind |-> kind, pad |-> pad, inner |-> inner]

RECURSIVE Lines(_)
(* each content line followed by its newline *)
Lines(ls) == IF ls = <<>> THEN <<>> ELSE Head(ls) \o <<NL>> \o Lines(Tail(ls))

RenderSegment(g) ==
    CASE g.kind = "repl" -> <<Fence, ReplTag>> \o g.pad \o <<NL>> \o Lines(g.inner) \o <<Fence>>
      [] g.kind = "other" -> <<Fence, OtherTag>> \o g.pad \o <<NL>> \o Lines(g.inner) \o <<Fence>>
      [] OTHER -> Concat(g.inner)

FencedText(gs) == Join(<<NL>>, [i \in 1..Len(gs) |-> RenderSegment(gs[i])])

Contents ==
    { <<>>, << <<>> >>, << <<"x">> >>, << <<SP, "x", SP>> >>, << <<"x">>, <<"y">> >>,
      << <<>>, <<"x">> >> }

ResponseSegments ==
    {Segment("repl", p, c) : p \in {<<>>, <<SP>>}, c \in Contents}
    \cup {Segment("other", <<>>, c) : c \in {<<>>, << <<"z">> >>}}
    \cup {Segment("text", <<>>, c) : c \in {<< <<"a">> >>, << <<>> >>}}

ModelWritesSegment(g) ==
    /\ found = None
    /\ Len(segments) < MaxSegments
    /\ segments' = Append(segments, g)
    /\ UNCHANGED <<parserVars, found, formatVars, clientVars>>

FindCodeBlocks ==
    /\ found = None
    /\ found' = Some(find_code_blocks(FencedText(segments)))
    /\ UNCHANGED <<parserVars, segments, formatVars, clientVars>>

InitBlocks ==
    /\ lines = <<>>
    /\ locals = NoBindings
    /\ last = None
    /\ trace = <<>>
    /\ NoBlocks
    /\ NoIteration
    /\ NoClient

NextBlocks ==
    \/ \E g \in ResponseSegments : ModelWritesSegment(g)
    \/ FindCodeBlocks

SpecBlocks == InitBlocks /\ [][NextBlocks]_vars

----------------------------------------------------------------------------
(* format_execution_result and format_iteration.  Here a text is a sequence
   of characters. *)

Backquote == "<backquote>"

NoOutput == <<"N", "o", SP, "o", "u", "t", "p", "u", "t">>
VariablesLabel ==
    <<"R", "E", "P", "L", SP, "v", "a", "r", "i", "a", "b", "l", "e", "s", ":", SP>>
ElisionOpen == <<".", ".", ".", SP, "+", SP, "[">>
ElisionClose == <<SP, "c", "h", "a", "r", "s", ".", ".", ".", "]">>
CodeHeader ==
    <<"C", "o", "d", "e", SP, "e", "x", "e", "c", "u", "t", "e", "d", ":", NL,
      Backquote, Backquote, Backquote, "p", "y", "t", "h", "o", "n", NL>>
CodeFooter ==
    <<NL, Backquote, Backquote, Backquote, NL, NL,
      "R", "E", "P", "L", SP, "o", "u", "t", "p", "u", "t", ":", NL>>

ReservedNames ==
    { <<"_", "_", "b", "u", "i", "l", "t", "i", "n", "s", "_", "_">>,
      <<"_", "_", "n", "a", "m", "e", "_", "_">>,
      <<"_", "_", "d", "o", "c", "_", "_">> }

(* The types isinstance accepts in format_execution_result. *)
SimpleTypes == {"str", "int", "float", "bool", "list", "dict", "tuple"}

Digit(d) ==
    CASE d = 0 -> "0" [] d = 1 -> "1" [] d = 2 -> "2" [] d = 3 -> "3" [] d = 4 -> "4"
      [] d = 5 -> "5" [] d = 6 -> "6" [] d = 7 -> "7" [] d = 8 -> "8" [] d = 9 -> "9"

RECURSIVE IntToStr(_)
(* str(n) for n >= 0 *)
IntToStr(n) == IF n < 10 THEN <<Digit(n)>> ELSE IntToStr(n \div 10) \o <<Digit(n % 10)>>

(* repr of a list of str *)
ListRepr(keys) ==
    <<"[">> \o Join(<<",", SP>>, [i \in 1..Len(keys) |-> Repr(keys[i])]) \o <<"]">>

(* result[:n] *)
Prefix(r, n) ==
    IF n >= 0 THEN Slice(r, 1, IF n < Len(r) THEN n ELSE Len(r))
    ELSE Slice(r, 1, Len(r) + n)

(* format_execution_result returning the empty text when nothing is to show *)
format_execution_result_NoSentinel(result) ==
    LET Listed(b) == ~(Len(b.key) > 0 /\ b.key[1] = "_") /\ b.type \in SimpleTypes
        shown == SelectSeq(result.locals, Listed)
    IN  Join(<<NL, NL>>,
             (IF result.stdout # <<>> THEN << <<NL>> \o result.stdout >> ELSE <<>>)
             \o (IF result.stderr # <<>> THEN << <<NL>> \o result.stderr >> ELSE <<>>)
             \o (IF shown # <<>>
                 THEN << VariablesLabel
                         \o ListRepr([i \in 1..Len(shown) |-> shown[i].key]) \o <<NL>> >>
                 ELSE <<>>))

(* format_execution_result(result).  result.locals is the dict of bindings in
   insertion order, each a key and the type of its value. *)
format_execution_result(result) ==
    LET Listed(b) ==
            /\ ~(Len(b.key) > 0 /\ b.key[1] = "_")
            /\ b.key \notin ReservedNames
            /\ b.type \in SimpleTypes
        important_vars == SelectSeq(result.locals, Listed)
        result_parts ==
            (IF result.stdout # <<>> THEN << <<NL>> \o result.stdout >> ELSE <<>>)
            \o (IF result.stderr # <<>> THEN << <<NL>> \o result.stderr >> ELSE <<>>)
            \o (IF important_vars # <<>>
                THEN << VariablesLabel
                        \o ListRepr([i \in 1..Len(important_vars) |-> important_vars[i].key])
                        \o <<NL>> >>
                ELSE <<>>)
    IN  IF result_parts # <<>> THEN Join(<<NL, NL>>, result_parts) ELSE NoOutput

(* A truncation that reports the length of the whole rendering. *)
TruncateReportsWhole(result, max_character_length) ==
    IF Len(result) > max_character_length
    THEN Prefix(result, max_character_length)
         \o ElisionOpen \o IntToStr(Len(result)) \o ElisionClose
    ELSE result

(* The truncation step of format_iteration. *)
Truncate(result, max_character_length) ==
    IF Len(result) > max_character_length
    THEN Prefix(result, max_character_length)
         \o ElisionOpen \o IntToStr(Len(result) - max_character_length) \o ElisionClose
    ELSE result

ExecutionMessage(code_block, max_character_length) ==
    [role |-> "user",
     content |-> CodeHeader \o code_block.code \o CodeFooter
                 \o Truncate(format_execution_result(code_block.result),
                             max_character_length)]

(* format_iteration putting the latest block first. *)
format_iteration_Reversed(it, max_character_length) ==
    << [role |-> "assistant", content |-> it.response] >>
    \o [i \in 1..Len(it.code_blocks) |->
            ExecutionMessage(it.code_blocks[Len(it.code_blocks) + 1 - i],
                             max_character_length)]

(* format_iteration(iteration, max_character_length) *)
format_iteration(it, max_character_length) ==
    << [role |-> "assistant", content |-> it.response] >>
    \o [i \in 1..Len(it.code_blocks) |->
            ExecutionMessage(it.code_blocks[i], max_character_length)]

(* The default of max_character_length. *)
DefaultMaxCharacterLength == 20000

MaxBlocks == 2
MaxCharLen == 8
MaxOutput == 2
MaxBindings == 2

REPLResult(stdout, stderr, ls) == [stdout |-> stdout, stderr |-> stderr, locals |-> ls]
Binding(key, type) == [key |-> key, type |-> type]

Responses == { <<"h", "i">>, <<>> }
Codes == { <<"p">>, <<"q", NL, "r">> }
Outputs == { <<>>, <<"o", "k">> }
Errors == { <<>>, <<"e">> }
LocalsChoices ==
    { <<>>,
      <<Binding(<<"x">>, "int")>>,
      <<Binding(<<"_", "p">>, "int"), Binding(<<"f">>, "function")>> }

(* The bindings a session may show: listable ones, internal names, values of
   other types. *)
BindingChoices ==
    { Binding(<<"x">>, "int"), Binding(<<"n">>, "str"), Binding(<<"_", "p">>, "int"),
      Binding(<<"f">>, "function"), Binding(<<"_", "_", "d", "o", "c", "_", "_">>, "str"),
      Binding(<<"t">>, "tuple"), Binding(<<"m">>, "module") }
OutputChars == {"o", NL}

(* The model responds. *)
Respond(r) ==
    /\ messages = None
    /\ iteration.response = <<>>
    /\ iteration.code_blocks = <<>>
    /\ r # <<>>
    /\ iteration' = [iteration EXCEPT !.response = r]
    /\ UNCHANGED <<parserVars, blockVars, messages, rendered, clientVars>>

(* One snippet of the response has been executed: its CodeBlock joins the
   iteration. *)
AddCodeBlock(code, result) ==
    /\ messages = None
    /\ Len(iteration.code_blocks) < MaxBlocks
    /\ iteration' = [iteration EXCEPT
                        !.code_blocks = Append(@, [code |-> code, result |-> result])]
    /\ UNCHANGED <<parserVars, blockVars, messages, rendered, clientVars>>

(* format_iteration(iteration, max_character_length) *)
FormatIteration(m) ==
    /\ messages = None
    /\ messages' = Some([max_character_length |-> m,
                         out |-> format_iteration(iteration, m)])
    /\ UNCHANGED <<parserVars, blockVars, iteration, rendered, clientVars>>

(* format_iteration(iteration) *)
FormatIterationDefault ==
    /\ messages = None
    /\ messages' = Some([max_character_length |-> DefaultMaxCharacterLength,
                         out |-> format_iteration(iteration, DefaultMaxCharacterLength)])
    /\ UNCHANGED <<parserVars, blockVars, iteration, rendered, clientVars>>

InitFormat == NoParsing /\ NoBlocks /\ NoIteration /\ NoClient

NextFormat ==
    \/ \E r \in Responses : Respond(r)
    \/ \E c \in Codes, o \in Outputs, e \in Errors, l \in LocalsChoices :
           AddCodeBlock(c, REPLResult(o, e, l))
    \/ \E m \in 0..MaxCharLen : FormatIteration(m)
    \/ FormatIterationDefault

SpecFormat == InitFormat /\ [][NextFormat]_vars

(* The execution of one snippet, seen through its result: what it prints,
   what it reports as errors, what it binds. *)
TheResult == iteration.code_blocks[1].result

SnippetPrints(c) ==
    /\ rendered = None
    /\ Len(TheResult.stdout) < MaxOutput
    /\ iteration' = [iteration EXCEPT !.code_blocks[1].result.stdout = Append(@, c)]
    /\ UNCHANGED <<parserVars, blockVars, messages, rendered, clientVars>>

SnippetFails(c) ==
    /\ rendered = None
    /\ Len(TheResult.stderr) < MaxOutput
    /\ iteration' = [iteration EXCEPT !.code_blocks[1].result.stderr = Append(@, c)]
    /\ UNCHANGED <<parserVars, blockVars, messages, rendered, clientVars>>

SnippetBinds(b) ==
    /\ rendered = None
    /\ Len(TheResult.locals) < MaxBindings
    /\ \A i \in 1..Len(TheResult.locals) : TheResult.locals[i].key # b.key
    /\ iteration' = [iteration EXCEPT !.code_blocks[1].result.locals = Append(@, b)]
    /\ UNCHANGED <<parserVars, blockVars, messages, rendered, clientVars>>

(* format_execution_result(result) *)
FormatExecutionResult ==
    /\ rendered = None
    /\ rendered' = Some(format_execution_result(TheResult))
    /\ UNCHANGED <<parserVars, blockVars, iteration, messages, clientVars>>

InitRender ==
    /\ NoParsing /\ NoBlocks
    /\ iteration = [response |-> <<>>,
                    code_blocks |-> <<[code |-> <<"p">>,
                                       result |-> REPLResult(<<>>, <<>>, <<>>)]>>]
    /\ messages = None
    /\ rendered = None
    /\ NoClient

NextRender ==
    \/ \E c \in OutputChars : SnippetPrints(c)
    \/ \E c \in OutputChars : SnippetFails(c)
    \/ \E b \in BindingChoices : SnippetBinds(b)
    \/ FormatExecutionResult

SpecRender == InitRender /\ [][NextRender]_vars

----------------------------------------------------------------------------
(* OpenAIClient: completion, acompletion and the usage tracking *)

MaxCalls == 3

(* A model name that Python takes as false: None or the empty text. *)
NoModel == ""
ModelNames == {"m1", "m2"}

(* defaultdict(int): reading a missing key gives 0 *)
Get(d, k) == IF k \in DOMAIN d THEN d[k] ELSE 0
Put(d, k, v) == [m \in DOMAIN d \cup {k} |-> IF m = k THEN v ELSE d[m]]

Usage(p, c, t) == [prompt_tokens |-> p, completion_tokens |-> c, total_tokens |-> t]

(* What the provider may answer to a request: an error raised by the
   openai library, a response without usage data, a response with it. *)
Usages == {Usage(1, 2, 3), Usage(2, 0, 2)}
Replies ==
    {[kind |-> "error", content |-> <<>>, usage |-> None]}
    \cup {[kind |-> "response", content |-> <<"o", "k">>, usage |-> None]}
    \cup {[kind |-> "response", content |-> <<"o", "k">>, usage |-> Some(u)] : u \in Usages}

(* The shapes of a prompt: a str, a list of dicts, anything else. *)
PromptShapes == {"str", "list of dict", "other"}

(* The base URLs a client is built with: the default one, for which the
   request carries no extra body, and the one for which it asks the
   provider to include usage data. *)
DEFAULT_OPENAI_BASE_URL == "https://api.openai.com/v1"
DEFAULT_PRIME_INTELLECT_BASE_URL == "https://api.pinference.ai/api/v1/"
BaseUrls == {DEFAULT_OPENAI_BASE_URL, DEFAULT_PRIME_INTELLECT_BASE_URL}

(* The value of the base_url attribute of the client object itself where
   the base class provides one: __init__ keeps its base_url argument for
   the two openai clients and hands none to the base class. *)
InheritedBaseUrl == "inherited"

(* extra_body of the request, for the base URL the handler looked at. *)
ExtraBody(url) ==
    IF url = DEFAULT_PRIME_INTELLECT_BASE_URL THEN "usage: include" ELSE "empty"

(* A call that ended before any request was sent. *)
Refused(api, error) ==
    [api |-> api, model |-> NoModel, sent |-> FALSE, extra_body |-> None,
     responded |-> FALSE, usage |-> None, outcome |-> error, text |-> <<>>]

(* A call whose request was sent to the provider. *)
Sent(api, model, extra_body, reply) ==
    [api |-> api, model |-> model, sent |-> TRUE, extra_body |-> Some(extra_body),
     responded |-> reply.kind = "response", usage |-> reply.usage,
     outcome |-> IF reply.kind = "error" THEN "APIError"
                 ELSE IF reply.usage = None THEN "ValueError: No usage data"
                 ELSE "returned",
     text |-> IF reply.kind = "response" /\ reply.usage # None
              THEN reply.content ELSE <<>>]

(* _track_cost overwriting the totals with the call's counts. *)
track_cost_Overwrites(reply, model) ==
    /\ model_call_counts' = Put(model_call_counts, model, Get(model_call_counts, model) + 1)
    /\ IF reply.usage = None
       THEN UNCHANGED <<model_input_tokens, model_output_tokens, model_total_tokens,
                        last_prompt_tokens, last_completion_tokens>>
       ELSE /\ model_input_tokens' =
                   Put(model_input_tokens, model, reply.usage[1].prompt_tokens)
            /\ model_output_tokens' =
                   Put(model_output_tokens, model, reply.usage[1].completion_tokens)
            /\ model_total_tokens' =
                   Put(model_total_tokens, model, reply.usage[1].total_tokens)
            /\ last_prompt_tokens' = Some(reply.usage[1].prompt_tokens)
            /\ last_completion_tokens' = Some(reply.usage[1].completion_tokens)

(* _track_cost taking missing usage data for zero tokens. *)
track_cost_DefaultsZero(reply, model) ==
    LET usage == IF reply.usage = None THEN Usage(0, 0, 0) ELSE reply.usage[1]
    IN  /\ model_call_counts' = Put(model_call_counts, model, Get(model_call_counts, model) + 1)
        /\ model_input_tokens' =
               Put(model_input_tokens, model,
                   Get(model_input_tokens, model) + usage.prompt_tokens)
        /\ model_output_tokens' =
               Put(model_output_tokens, model,
                   Get(model_output_tokens, model) + usage.completion_tokens)
        /\ model_total_tokens' =
               Put(model_total_tokens, model,
                   Get(model_total_tokens, model) + usage.total_tokens)
        /\ last_prompt_tokens' = Some(usage.prompt_tokens)
        /\ last_completion_tokens' = Some(usage.completion_tokens)

(* _track_cost looking at the usage data before it counts the call. *)
track_cost_ChecksFirst(reply, model) ==
    IF reply.usage = None
    THEN UNCHANGED ledgerVars
    ELSE /\ model_call_counts' =
                Put(model_call_counts, model, Get(model_call_counts, model) + 1)
         /\ model_input_tokens' =
                Put(model_input_tokens, model,
                    Get(model_input_tokens, model) + reply.usage[1].prompt_tokens)
         /\ model_output_tokens' =
                Put(model_output_tokens, model,
                    Get(model_output_tokens, model) + reply.usage[1].completion_tokens)
         /\ model_total_tokens' =
                Put(model_total_tokens, model,
                    Get(model_total_tokens, model) + reply.usage[1].total_tokens)
         /\ last_prompt_tokens' = Some(reply.usage[1].prompt_tokens)
         /\ last_completion_tokens' = Some(reply.usage[1].completion_tokens)

(* _track_cost(response, model): the call is counted, then a response
   without usage data raises, then the tokens are added and the last call
   is recorded. *)
track_cost(reply, model) ==
    /\ model_call_counts' = Put(model_call_counts, model, Get(model_call_counts, model) + 1)
    /\ IF reply.usage = None
       THEN UNCHANGED <<model_input_tokens, model_output_tokens, model_total_tokens,
                        last_prompt_tokens, last_completion_tokens>>
       ELSE /\ model_input_tokens' =
                   Put(model_input_tokens, model,
                       Get(model_input_tokens, model) + reply.usage[1].prompt_tokens)
            /\ model_output_tokens' =
                   Put(model_output_tokens, model,
                       Get(model_output_tokens, model) + reply.usage[1].completion_tokens)
            /\ model_total_tokens' =
                   Put(model_total_tokens, model,
                       Get(model_total_tokens, model) + reply.usage[1].total_tokens)
            /\ last_prompt_tokens' = Some(reply.usage[1].prompt_tokens)
            /\ last_completion_tokens' = Some(reply.usage[1].completion_tokens)

(* The body of completion without the check of the model name. *)
Call_ModelUnchecked(api, has_base_url, url, prompt, model_arg, reply) ==
    LET model == IF model_arg # NoModel THEN model_arg ELSE client[1].model_name
    IN  /\ client # None
        /\ Len(calls) < MaxCalls
        /\ UNCHANGED <<parserVars, blockVars, formatVars, client, summary, last_usage, tasks>>
        /\ IF prompt = "other"
           THEN /\ calls' = Append(calls, Refused(api, "ValueError: Invalid prompt type"))
                /\ UNCHANGED ledgerVars
           ELSE IF ~has_base_url
           THEN /\ calls' = Append(calls, Refused(api, "AttributeError: base_url"))
                /\ UNCHANGED ledgerVars
           ELSE /\ calls' = Append(calls, Sent(api, model, ExtraBody(url), reply))
                /\ IF reply.kind = "error"
                   THEN UNCHANGED ledgerVars
                   ELSE track_cost(reply, model)

(* The body shared by completion and acompletion; has_base_url says whether
   reading the base URL the handler compares succeeds, url is what it reads. *)
Call_(api, has_base_url, url, prompt, model_arg, reply) ==
    LET model == IF model_arg # NoModel THEN model_arg ELSE client[1].model_name
    IN  /\ client # None
        /\ Len(calls) < MaxCalls
        /\ UNCHANGED <<parserVars, blockVars, formatVars, client, summary, last_usage, tasks>>
        /\ IF prompt = "other"
           THEN /\ calls' = Append(calls, Refused(api, "ValueError: Invalid prompt type"))
                /\ UNCHANGED ledgerVars
           ELSE IF model = NoModel
           THEN /\ calls' = Append(calls, Refused(api, "ValueError: Model name is required"))
                /\ UNCHANGED ledgerVars
           ELSE IF ~has_base_url
           THEN /\ calls' = Append(calls, Refused(api, "AttributeError: base_url"))
                /\ UNCHANGED ledgerVars
           ELSE /\ calls' = Append(calls, Sent(api, model, ExtraBody(url), reply))
                /\ IF reply.kind = "error"
                   THEN UNCHANGED ledgerVars
                   ELSE track_cost(reply, model)

(* completion(prompt, model): self.client.base_url is always there and is
   the URL the client was built with. *)
Completion(prompt, model_arg, reply) ==
    Call_("completion", TRUE, client[1].base_url, prompt, model_arg, reply)

(* acompletion(prompt, model): it reads self.base_url, which __init__ does
   not set; whether the base class provides it is the client's has_base_url. *)
Acompletion(prompt, model_arg, reply) ==
    Call_("acompletion", client[1].has_base_url, InheritedBaseUrl, prompt, model_arg, reply)

ModelUsageSummary(calls_, input, output) ==
    [total_calls |-> calls_, total_input_tokens |-> input, total_output_tokens |-> output]

(* get_usage_summary(): one summary per model counted; reading the token
   defaultdicts creates the entries that are missing. *)
get_usage_summary ==
    [model \in DOMAIN model_call_counts |->
        ModelUsageSummary(model_call_counts[model],
                          Get(model_input_tokens, model),
                          Get(model_output_tokens, model))]

GetUsageSummary ==
    /\ client # None
    /\ summary' = Some(get_usage_summary)
    /\ model_input_tokens' =
           [m \in DOMAIN model_input_tokens \cup DOMAIN model_call_counts |->
               Get(model_input_tokens, m)]
    /\ model_output_tokens' =
           [m \in DOMAIN model_output_tokens \cup DOMAIN model_call_counts |->
               Get(model_output_tokens, m)]
    /\ UNCHANGED <<parserVars, blockVars, formatVars, client, calls,
                   model_call_counts, model_total_tokens,
                   last_prompt_tokens, last_completion_tokens, last_usage, tasks>>

(* get_last_usage() reading a snapshot attribute that was never assigned
   in place of the count of output tokens. *)
get_last_usage_InputTwice ==
    IF last_prompt_tokens = None \/ last_completion_tokens = None
    THEN [outcome |-> "AttributeError", value |-> None]
    ELSE [outcome |-> "returned",
          value |-> Some(ModelUsageSummary(1, last_prompt_tokens[1], last_prompt_tokens[1]))]

(* get_last_usage(): a summary of one call made of the two snapshot
   attributes; __init__ does not create them, so reading them before
   _track_cost has assigned them raises AttributeError. *)
get_last_usage ==
    IF last_prompt_tokens = None \/ last_completion_tokens = None
    THEN [outcome |-> "AttributeError", value |-> None]
    ELSE [outcome |-> "returned",
          value |-> Some(ModelUsageSummary(1, last_prompt_tokens[1], last_completion_tokens[1]))]

GetLastUsage ==
    /\ client # None
    /\ last_usage' = Some(get_last_usage)
    /\ UNCHANGED <<parserVars, blockVars, formatVars, client, ledgerVars, calls,
                   summary, tasks>>

InitClient ==
    /\ NoParsing /\ NoBlocks /\ NoIteration
    /\ \E name \in {NoModel, "m1"}, url \in BaseUrls, b \in BOOLEAN :
           client = Some([model_name |-> name, base_url |-> url, has_base_url |-> b])
    /\ FreshLedger

NextClient ==
    \/ \E p \in PromptShapes, m \in ModelNames \cup {NoModel}, r \in Replies :
           Completion(p, m, r)
    \/ \E p \in PromptShapes, m \in ModelNames \cup {NoModel}, r \in Replies :
           Acompletion(p, m, r)
    \/ GetUsageSummary

SpecClient == InitClient /\ [][NextClient]_vars

(* The client with its calls and the reading of the last call's usage. *)
NextLastUsage ==
    \/ \E p \in PromptShapes, m \in ModelNames \cup {NoModel}, r \in Replies :
           Completion(p, m, r)
    \/ \E p \in PromptShapes, m \in ModelNames \cup {NoModel}, r \in Replies :
           Acompletion(p, m, r)
    \/ GetLastUsage

SpecLastUsage == InitClient /\ [][NextLastUsage]_vars

----------------------------------------------------------------------------
(* One client shared by the acompletion calls of concurrent trajectories on
   one event loop: a coroutine runs without interruption from one await to
   the next, and acompletion has a single await, the request to the
   provider. *)
MaxTasks == 3

IdleTask == [pc |-> "idle", model |-> NoModel, began_after |-> 0]

RECURSIVE CountedBefore(_, _, _)
(* How many of the first n calls of the log the ledger counted for a model. *)
CountedBefore(log, n, model) ==
    IF n = 0 THEN 0
    ELSE CountedBefore(log, n - 1, model)
         + (IF log[n].responded /\ log[n].model = model THEN 1 ELSE 0)

(* acompletion up to its await: the prompt and the model are checked, the
   base URL is read and the request is sent; the coroutine is suspended.
   The calls are numbered in the order they begin. *)
ABegin(t, prompt, model_arg) ==
    LET model == IF model_arg # NoModel THEN model_arg ELSE client[1].model_name
        ended(error) ==
            /\ calls' = Append(calls, Refused("acompletion", error))
            /\ tasks' = [tasks EXCEPT ![t].pc = "done"]
    IN  /\ client # None
        /\ tasks[t].pc = "idle"
        /\ \A u \in 1..(t - 1) : tasks[u].pc # "idle"
        /\ UNCHANGED <<parserVars, blockVars, formatVars, client, ledgerVars,
                       summary, last_usage>>
        /\ IF prompt = "other" THEN ended("ValueError: Invalid prompt type")
           ELSE IF model = NoModel THEN ended("ValueError: Model name is required")
           ELSE IF ~client[1].has_base_url THEN ended("AttributeError: base_url")
           ELSE /\ tasks' = [tasks EXCEPT ![t] =
                                [pc |-> "awaiting", model |-> model,
                                 began_after |-> Len(calls)]]
                /\ UNCHANGED calls

(* acompletion resumed with a call count it read before the await. *)
AResume_StaleCount(t, reply) ==
    LET model == tasks[t].model
    IN  /\ client # None
        /\ tasks[t].pc = "awaiting"
        /\ tasks' = [tasks EXCEPT ![t].pc = "done"]
        /\ calls' = Append(calls, Sent("acompletion", model, ExtraBody(InheritedBaseUrl), reply))
        /\ UNCHANGED <<parserVars, blockVars, formatVars, client, summary, last_usage>>
        /\ IF reply.kind = "error"
           THEN UNCHANGED ledgerVars
           ELSE /\ model_call_counts' =
                       Put(model_call_counts, model,
                           CountedBefore(calls, tasks[t].began_after, model) + 1)
                /\ IF reply.usage = None
                   THEN UNCHANGED <<model_input_tokens, model_output_tokens,
                                    model_total_tokens, last_prompt_tokens,
                                    last_completion_tokens>>
                   ELSE /\ model_input_tokens' =
                               Put(model_input_tokens, model,
                                   Get(model_input_tokens, model)
                                   + reply.usage[1].prompt_tokens)
                        /\ model_output_tokens' =
                               Put(model_output_tokens, model,
                                   Get(model_output_tokens, model)
                                   + reply.usage[1].completion_tokens)
                        /\ model_total_tokens' =
                               Put(model_total_tokens, model,
                                   Get(model_total_tokens, model)
                                   + reply.usage[1].total_tokens)
                        /\ last_prompt_tokens' = Some(reply.usage[1].prompt_tokens)
                        /\ last_completion_tokens' = Some(reply.usage[1].completion_tokens)

(* acompletion from its await on: the provider's reply arrives, _track_cost
   runs and the text is returned, in one go: nothing in it awaits. *)
AResume(t, reply) ==
    LET model == tasks[t].model
    IN  /\ client # None
        /\ tasks[t].pc = "awaiting"
        /\ tasks' = [tasks EXCEPT ![t].pc = "done"]
        /\ calls' = Append(calls, Sent("acompletion", model, ExtraBody(InheritedBaseUrl), reply))
        /\ UNCHANGED <<parserVars, blockVars, formatVars, client, summary, last_usage>>
        /\ IF reply.kind = "error"
           THEN UNCHANGED ledgerVars
           ELSE track_cost(reply, model)

InitAsync ==
    /\ NoParsing /\ NoBlocks /\ NoIteration
    /\ \E name \in {NoModel, "m1"}, url \in BaseUrls, b \in BOOLEAN :
           client = Some([model_name |-> name, base_url |-> url, has_base_url |-> b])
    /\ model_call_counts = NoBindings
    /\ model_input_tokens = NoBindings
    /\ model_output_tokens = NoBindings
    /\ model_total_tokens = NoBindings
    /\ last_prompt_tokens = None
    /\ last_completion_tokens = None
    /\ calls = <<>>
    /\ summary = None
    /\ last_usage = None
    /\ tasks = [t \in 1..MaxTasks |-> IdleTask]

NextAsync ==
    \/ \E t \in 1..MaxTasks, p \in PromptShapes, m \in ModelNames \cup {NoModel} :
           ABegin(t, p, m)
    \/ \E t \in 1..MaxTasks, r \in Replies : AResume(t, r)

SpecAsync == InitAsync /\ [][NextAsync]_vars

----------------------------------------------------------------------------
(* Properties of the marker parser *)

OnlySpace(s) == \A i \in 1..Len(s) : IsSpace(s[i])

(* The lines of the response that hold a marker of the kind at the start of
   the line, after optional whitespace. *)
AnchoredMarkers(kind) ==
    {i \in 1..Len(lines) : lines[i].kind = kind /\ OnlySpace(lines[i].prefix)}

(* The lines that hold a marker after other text on the line. *)
MidLineMarkers ==
    {i \in 1..Len(lines) : lines[i].kind \in {"ref", "lit"} /\ ~OnlySpace(lines[i].prefix)}

(* What the session prints for a variable, trimmed. *)
Resolved(env, x) ==
    IF x \in DOMAIN env.bindings THEN Strip(env.bindings[x]) ELSE <<NotFoundText>>

(* The variable a request sent to the executor names. *)
RequestedName(code) == EvalStrLiteral(Slice(code, 2, Len(code) - 1))

(* C1: when the text holds a line-anchored FINAL_VAR(x) and a line-anchored
   FINAL(y), in either order, and an executor is given, the answer is what the
   executor resolves x to, never the payload y; the executor gets exactly one
   request, which names x. *)
C1_ReferenceWins ==
    (last # None /\ last[1].environment # None
        /\ AnchoredMarkers("ref") # {} /\ AnchoredMarkers("lit") # {})
    => LET c == last[1]
           x == lines[Min(AnchoredMarkers("ref"))].name
       IN  /\ c.value = Some(Resolved(c.environment[1], x))
           /\ Len(c.requests) = 1
           /\ RequestedName(c.requests[1]) = x
           /\ \A i \in AnchoredMarkers("lit") : c.value # Some(Strip(lines[i].body))

C1_Witness ==
    /\ last # None /\ last[1].environment # None
    /\ Len(lines) = 2
    /\ lines[1].kind = "lit" /\ lines[1].prefix = <<>>
    /\ lines[2].kind = "ref" /\ lines[2].prefix = <<SP>>
    /\ last[1].value = Some(<<"2">>)

(* C2: when the text holds a line-anchored FINAL_VAR(...) and no executor is
   given, there is no final answer, whether or not the text also holds a
   line-anchored FINAL(...); nothing is executed. *)
C2_NoExecutorNoAnswer ==
    (last # None /\ last[1].environment = None /\ AnchoredMarkers("ref") # {})
    => (last[1].value = None /\ last[1].requests = <<>>)

C2_Witness ==
    /\ last # None /\ last[1].environment = None
    /\ AnchoredMarkers("ref") # {} /\ AnchoredMarkers("lit") # {}
    /\ Min(AnchoredMarkers("lit")) < Min(AnchoredMarkers("ref"))
    /\ lines[Min(AnchoredMarkers("lit"))].tail = <<>>
    /\ last[1].value = None

(* The case of C3: an executor is given and the first line-anchored
   FINAL_VAR names a variable the session does not hold. *)
MissingVariableCase ==
    /\ last # None /\ last[1].environment # None
    /\ AnchoredMarkers("ref") # {}
    /\ lines[Min(AnchoredMarkers("ref"))].name \notin DOMAIN last[1].environment[1].bindings

(* C3 as stated: a FINAL_VAR naming a variable that does not exist yields no
   final answer. *)
C3_MissingVariableNotFinal ==
    MissingVariableCase => last[1].value = None

(* C3, amended: a FINAL_VAR naming a variable that does not exist yields the
   executor's error text as the answer (its trimmed standard output, or its
   trimmed standard error when the standard output is empty), after exactly
   one request to the executor. *)
C3_MissingVariableErrorText ==
    MissingVariableCase
    => (last[1].value = Some(<<NotFoundText>>) /\ Len(last[1].requests) = 1)

C3_Witness ==
    /\ MissingVariableCase
    /\ last[1].environment[1].errors = "stderr"
    /\ last[1].value = Some(<<NotFoundText>>)

(* C4: a single-line text FINAL(<payload>), with optional whitespace around
   it, yields the whole payload, trimmed, up to the closing parenthesis that
   ends the line, whatever parentheses the payload holds. *)
C4_GreedyPayload ==
    (last # None /\ Len(lines) = 1 /\ lines[1].kind = "lit" /\ OnlySpace(lines[1].prefix)
        /\ OnlySpace(lines[1].tail))
    => (last[1].value = Some(Strip(lines[1].body)) /\ last[1].requests = <<>>)

C4_Witness ==
    /\ last # None
    /\ Len(lines) = 1
    /\ lines[1].body = <<"y", OpenPar, "y", ClosePar, ",">>
    /\ last[1].value = Some(lines[1].body)

(* C5: when every marker of the text is a mid-line one, there is no final
   answer, with or without an executor, and nothing is executed. *)
C5_MidLineNeverMatches ==
    (last # None /\ AnchoredMarkers("ref") = {} /\ AnchoredMarkers("lit") = {})
    => (last[1].value = None /\ last[1].requests = <<>>)

C5_Witness ==
    /\ last # None /\ last[1].environment # None
    /\ Len(lines) = 2
    /\ MidLineMarkers = {1, 2}
    /\ lines[1].kind = "ref" /\ lines[2].kind = "lit"
    /\ last[1].value = None

----------------------------------------------------------------------------
(* Properties of find_code_blocks *)

(* The trimmed inner text of every repl block of the response, in order. *)
RECURSIVE ReplBlocks(_)
ReplBlocks(gs) ==
    IF gs = <<>> THEN <<>>
    ELSE (IF Head(gs).kind = "repl"
          THEN <<Strip(Join(<<NL>>, Head(gs).inner))>>
          ELSE <<>>) \o ReplBlocks(Tail(gs))

(* C6: for a text with N properly delimited repl blocks, find_code_blocks
   returns exactly N snippets in order of appearance, each the trimmed inner
   text of its block; blocks with another tag are ignored, and with N = 0 the
   result is the empty sequence. *)
C6_ExactlyTheBlocks ==
    found # None => found[1] = ReplBlocks(segments)

(* The same holds of the responses whose repl blocks all have content other
   than whitespace. *)
NonBlankBlocksFound ==
    (found # None /\ \A i \in 1..Len(segments) :
         segments[i].kind = "repl" => Strip(Join(<<NL>>, segments[i].inner)) # <<>>)
    => found[1] = ReplBlocks(segments)

----------------------------------------------------------------------------
(* Properties of the trajectory formatter and the execution result adapter *)

IsPrefix(a, b) == Len(a) <= Len(b) /\ SubSeq(b, 1, Len(a)) = a
Drop(a, n) == Slice(a, n + 1, Len(a))

DigitValue(c) ==
    CASE c = "0" -> 0 [] c = "1" -> 1 [] c = "2" -> 2 [] c = "3" -> 3 [] c = "4" -> 4
      [] c = "5" -> 5 [] c = "6" -> 6 [] c = "7" -> 7 [] c = "8" -> 8 [] c = "9" -> 9
      [] OTHER -> -1

RECURSIVE ParseCount(_)
(* The number a text of decimal digits denotes; -1 if it is no such text. *)
ParseCount(d) ==
    IF d = <<>> \/ DigitValue(d[Len(d)]) < 0 THEN -1
    ELSE IF Len(d) = 1 THEN DigitValue(d[1])
    ELSE IF ParseCount(SubSeq(d, 1, Len(d) - 1)) < 0 THEN -1
    ELSE 10 * ParseCount(SubSeq(d, 1, Len(d) - 1)) + DigitValue(d[Len(d)])

(* The rendered result of the i-th code block, and the part of the i-th
   execution message that follows the code and the output label. *)
Rendering(i) == format_execution_result(iteration.code_blocks[i].result)
Envelope(i) == CodeHeader \o iteration.code_blocks[i].code \o CodeFooter
Embedded(i) == Drop(messages[1].out[i + 1].content, Len(Envelope(i)))

(* C7: when the rendered result of a code block has length L and the
   configured maximum is M < L, the message embeds the first M characters of
   the rendering and then a suffix that reports L - M elided characters. *)
C7_TruncationReportsElided ==
    messages # None
    => \A i \in 1..Len(iteration.code_blocks) :
           LET m == messages[1].max_character_length
               l == Len(Rendering(i))
               suffix == Drop(Embedded(i), m)
               count == SubSeq(suffix, Len(ElisionOpen) + 1,
                               Len(suffix) - Len(ElisionClose))
           IN  m < l
               => /\ Len(messages[1].out) > i
                  /\ SubSeq(Embedded(i), 1, m) = SubSeq(Rendering(i), 1, m)
                  /\ IsPrefix(ElisionOpen, suffix)
                  /\ Drop(suffix, Len(suffix) - Len(ElisionClose)) = ElisionClose
                  /\ ParseCount(count) = l - m

C7_Witness ==
    /\ messages # None
    /\ Len(iteration.code_blocks) = 2
    /\ messages[1].max_character_length = 5
    /\ Len(Rendering(2)) = 22
    /\ Drop(Embedded(2), 5) = ElisionOpen \o <<"1", "7">> \o ElisionClose

(* C8: for an iteration with n code blocks format_iteration returns n + 1
   messages: the first is the assistant's, with the raw response; message
   i + 1 is a user message that embeds the code and the rendered result of the
   i-th code block (whole when it fits the maximum, its first characters
   when it does not). *)
C8_OneMessagePerBlock ==
    messages # None
    => LET out == messages[1].out
           m == messages[1].max_character_length
       IN  /\ Len(out) = Len(iteration.code_blocks) + 1
           /\ out[1] = [role |-> "assistant", content |-> iteration.response]
           /\ \A i \in 1..Len(iteration.code_blocks) :
                  /\ out[i + 1].role = "user"
                  /\ IsPrefix(Envelope(i), out[i + 1].content)
                  /\ IF Len(Rendering(i)) <= m
                     THEN Embedded(i) = Rendering(i)
                     ELSE IsPrefix(SubSeq(Rendering(i), 1, m), Embedded(i))

C8_Witness ==
    /\ messages # None
    /\ Len(iteration.code_blocks) = 2
    /\ iteration.code_blocks[1].code # iteration.code_blocks[2].code
    /\ Rendering(1) # Rendering(2)
    /\ iteration.response # <<>>
    /\ Len(messages[1].out) = 3
    /\ Embedded(1) = Rendering(1)
    /\ Embedded(2) = Rendering(2)

(* The bindings the adapter lists: the name does not start with the internal
   prefix and the value is a text, number, boolean, list, dict or tuple. *)
Listable(b) ==
    /\ (b.key = <<>> \/ b.key[1] # "_")
    /\ b.type \in {"str", "int", "float", "bool", "list", "dict", "tuple"}

NothingToShow ==
    /\ TheResult.stdout = <<>>
    /\ TheResult.stderr = <<>>
    /\ \A i \in 1..Len(TheResult.locals) : ~Listable(TheResult.locals[i])

(* The sections of a rendering in their order: standard output, standard
   error, variable names; an absent section is the empty text. *)
Sections ==
    << IF TheResult.stdout = <<>> THEN <<>> ELSE <<NL>> \o TheResult.stdout,
       IF TheResult.stderr = <<>> THEN <<>> ELSE <<NL>> \o TheResult.stderr,
       IF \A i \in 1..Len(TheResult.locals) : ~Listable(TheResult.locals[i])
       THEN <<>>
       ELSE LET shown == SelectSeq(TheResult.locals, Listable)
            IN  VariablesLabel
                \o ListRepr([i \in 1..Len(shown) |-> shown[i].key]) \o <<NL>> >>

NonEmpty(t) == t # <<>>

(* C9: format_execution_result never returns the empty text; it returns the
   sentinel No output exactly when standard output and standard error are
   empty and no binding is listable; otherwise it returns the non-empty
   sections in the order standard output, standard error, variable names. *)
C9_SentinelNotEmpty ==
    rendered # None
    => /\ rendered[1] # <<>>
       /\ (rendered[1] = NoOutput) <=> NothingToShow
       /\ ~NothingToShow => rendered[1] = Join(<<NL, NL>>, SelectSeq(Sections, NonEmpty))

C9_Witness ==
    /\ rendered = Some(NoOutput)
    /\ Len(TheResult.locals) = 2
    /\ TheResult.locals[1].type = "function"
    /\ TheResult.locals[2].key[1] = "_"

----------------------------------------------------------------------------
(* Properties of the usage ledger *)

(* The calls made with a model that the provider answered: the completed
   model calls.  A completed call may lack usage data. *)
RECURSIVE Completed(_, _)
Completed(log, model) ==
    IF log = <<>> THEN 0
    ELSE Completed(Tail(log), model)
         + (IF Head(log).responded /\ Head(log).model = model THEN 1 ELSE 0)

RECURSIVE Reported(_, _, _)
(* The sum of the token counts the completed calls of a model reported;
   which is 1 for the input tokens, 2 for the output tokens. *)
Reported(log, model, which) ==
    IF log = <<>> THEN 0
    ELSE Reported(Tail(log), model, which)
         + (IF Head(log).responded /\ Head(log).model = model /\ Head(log).usage # None
            THEN (IF which = 1 THEN Head(log).usage[1].prompt_tokens
                  ELSE Head(log).usage[1].completion_tokens)
            ELSE 0)

RECURSIVE SumCalls(_, _)
SumCalls(s, models) ==
    IF models = {} THEN 0
    ELSE LET m == CHOOSE m \in models : TRUE
         IN  s[m].total_calls + SumCalls(s, models \ {m})

RECURSIVE CompletedCalls(_)
CompletedCalls(log) ==
    IF log = <<>> THEN 0
    ELSE CompletedCalls(Tail(log)) + (IF Head(log).responded THEN 1 ELSE 0)

LedgerMatchesCalls ==
    /\ \A m \in ModelNames :
           /\ Get(model_call_counts, m) = Completed(calls, m)
           /\ Get(model_input_tokens, m) = Reported(calls, m, 1)
           /\ Get(model_output_tokens, m) = Reported(calls, m, 2)
    /\ DOMAIN model_call_counts \subseteq ModelNames
    /\ SumCalls(get_usage_summary, DOMAIN get_usage_summary) = CompletedCalls(calls)
    /\ \A m \in DOMAIN get_usage_summary :
           /\ get_usage_summary[m].total_calls = Completed(calls, m)
           /\ get_usage_summary[m].total_input_tokens = Reported(calls, m, 1)
           /\ get_usage_summary[m].total_output_tokens = Reported(calls, m, 2)

CountersNeverDecrease ==
    \A m \in ModelNames :
        /\ Get(model_call_counts', m) >= Get(model_call_counts, m)
        /\ Get(model_input_tokens', m) >= Get(model_input_tokens, m)
        /\ Get(model_output_tokens', m) >= Get(model_output_tokens, m)
        /\ Get(model_total_tokens', m) >= Get(model_total_tokens, m)

(* C10: after any sequence of calls on one client, every model's call count
   is the number of completed calls made with it and its input and output
   token totals are the sums of the token counts those calls reported; so the
   call counts of get_usage_summary add up to the number of completed calls;
   and no cumulative counter decreases from one state to the next. *)
C10_LedgerMatchesCalls ==
    [](client # None => LedgerMatchesCalls) /\ [][CountersNeverDecrease]_vars

C10_Witness ==
    /\ Len(calls) = 3
    /\ calls[1].api = "completion" /\ calls[1].outcome = "returned" /\ calls[1].model = "m1"
    /\ calls[2].api = "acompletion" /\ calls[2].outcome = "returned" /\ calls[2].model = "m2"
    /\ calls[3].outcome = "returned" /\ calls[3].model = "m1"
    /\ calls[3].usage # calls[1].usage
    /\ model_call_counts["m1"] = 2
    /\ model_input_tokens["m1"] = 3
    /\ summary # None /\ DOMAIN summary[1] = {"m1", "m2"}

(* ---- missing usage data ---- *)

(* The step is a call of completion or acompletion. *)
CallStep == Len(calls') = Len(calls) + 1

(* The call the step made. *)
TheCall == calls'[Len(calls')]

(* The provider answered the call with a response that carries no usage data. *)
LacksUsage(c) == c.responded /\ c.usage = None

TokensAndSnapshotUnchanged ==
    UNCHANGED <<model_input_tokens, model_output_tokens, model_total_tokens,
                last_prompt_tokens, last_completion_tokens>>

(* C11: a call of completion or acompletion that the provider answers with
   a response carrying no usage data fails with the error of _track_cost
   and returns no text, and the step changes no token total and no part of
   the last-call snapshot: no zero is recorded for the call. *)
C11_MissingUsageFails ==
    [][CallStep /\ LacksUsage(TheCall) =>
           /\ TheCall.outcome = "ValueError: No usage data"
           /\ TheCall.text = <<>>
           /\ TokensAndSnapshotUnchanged]_vars

C11_Witness ==
    /\ Len(calls) = 3
    /\ calls[1].outcome = "returned" /\ calls[1].model = "m1"
    /\ calls[2].api = "completion" /\ LacksUsage(calls[2]) /\ calls[2].model = "m1"
    /\ calls[3].api = "acompletion" /\ LacksUsage(calls[3]) /\ calls[3].model = "m2"
    /\ calls[3].outcome = "ValueError: No usage data"
    /\ last_prompt_tokens = Some(calls[1].usage[1].prompt_tokens)
    /\ model_input_tokens = Put(NoBindings, "m1", calls[1].usage[1].prompt_tokens)

(* ---- the last call ---- *)

RECURSIVE LastWhere(_, _)
(* The position of the last call of the log that ended the given way,
   0 when there is none. *)
LastWhere(log, outcome) ==
    IF log = <<>> THEN 0
    ELSE IF log[Len(log)].outcome = outcome THEN Len(log)
    ELSE LastWhere(SubSeq(log, 1, Len(log) - 1), outcome)

(* The summary of one call with the token counts that call reported. *)
SummaryOf(c) ==
    ModelUsageSummary(1, c.usage[1].prompt_tokens, c.usage[1].completion_tokens)

(* The step is a call of get_last_usage. *)
LastUsageStep == last_usage' # last_usage

LastUsageChangesNothing ==
    LastUsageStep =>
        /\ last_usage' = Some(get_last_usage)
        /\ UNCHANGED <<client, ledgerVars, calls, summary>>

(* C12 as stated: after any sequence of model calls, each one answered by
   the provider, get_last_usage returns a summary of one call with the token
   counts of the most recent call. *)
C12_LastUsageIsMostRecentCall ==
    client # None /\ calls # <<>> /\ (\A i \in 1..Len(calls) : calls[i].responded) =>
        /\ get_last_usage.outcome = "returned"
        /\ calls[Len(calls)].usage # None
        /\ get_last_usage.value = Some(SummaryOf(calls[Len(calls)]))

(* C12, amended: get_last_usage returns a summary with call count 1 whose
   token counts are those of the most recent call that returned, whatever
   the cumulative totals and whatever calls failed after it; it raises
   AttributeError while no call has returned; and a call of get_last_usage
   changes nothing of the ledger. *)
C12_LastUsageIsLastReturnedCall ==
    /\ [](client # None =>
            LET k == LastWhere(calls, "returned")
            IN  IF k = 0
                THEN get_last_usage = [outcome |-> "AttributeError", value |-> None]
                ELSE get_last_usage = [outcome |-> "returned",
                                       value |-> Some(SummaryOf(calls[k]))])
    /\ [][LastUsageChangesNothing]_vars

C12_Witness ==
    /\ Len(calls) = 3
    /\ calls[1].outcome = "returned" /\ calls[1].model = "m1"
    /\ calls[2].outcome = "returned" /\ calls[2].model = "m2"
    /\ calls[2].usage # calls[1].usage
    /\ calls[3].outcome = "ValueError: No usage data" /\ calls[3].model = "m1"
    /\ last_usage = Some([outcome |-> "returned", value |-> Some(SummaryOf(calls[2]))])
    /\ Get(model_call_counts, "m1") = 2

(* ---- completion and acompletion ---- *)

Prompts == PromptShapes
ModelArgs == ModelNames \cup {NoModel}

(* C13: completion and acompletion have the same semantics: from every
   state of the client, for every prompt, model argument and provider
   reply, a step is a call of one exactly when it is what the body of the
   other does under the same label, so both send the same request, end the same way,
   return the same text and leave the ledger in the same state. *)
C13_SameSemantics ==
    [][\A p \in Prompts, m \in ModelArgs, r \in Replies :
           /\ Completion(p, m, r) <=>
                  Call_("completion", client[1].has_base_url, InheritedBaseUrl, p, m, r)
           /\ Acompletion(p, m, r) <=>
                  Call_("acompletion", TRUE, client[1].base_url, p, m, r)]_vars

(* ---- one client, concurrent calls ---- *)

AllDone == \A t \in DOMAIN tasks : tasks[t].pc = "done"

AllReturned == \A i \in 1..Len(calls) : calls[i].outcome = "returned"

(* Two calls with the same model were in flight at the same time: both
   had begun before any call was over. *)
Overlapped ==
    \E t1, t2 \in DOMAIN tasks :
        /\ t1 # t2
        /\ tasks[t1].pc = "done" /\ tasks[t2].pc = "done"
        /\ tasks[t1].model = tasks[t2].model /\ tasks[t1].model # NoModel
        /\ tasks[t1].began_after = 0 /\ tasks[t2].began_after = 0

(* C14: with one client shared by concurrent acompletion calls, whatever
   the order in which the calls begin and their replies arrive, no update
   of the ledger is lost: at every moment each model's call count and token
   totals are those of the calls that have completed, and once K calls have
   all returned the call counts add up to K. *)
C14_NoLostUpdate ==
    client # None /\ tasks # <<>> =>
        /\ LedgerMatchesCalls
        /\ (AllDone /\ AllReturned =>
               SumCalls(get_usage_summary, DOMAIN get_usage_summary) = Len(tasks))

C14_Witness ==
    /\ tasks # <<>> /\ AllDone /\ AllReturned /\ Overlapped
    /\ Len(calls) = Len(tasks)
    /\ \A t \in DOMAIN tasks : tasks[t].began_after = 0
    /\ Get(model_call_counts, "m1") = 2
    /\ Get(model_call_counts, "m2") = Len(tasks) - 2
    /\ calls[1].usage # calls[Len(calls)].usage

(* ---- calls refused before any request ---- *)

(* No model name comes with the call and the client has no default. *)
NoModelResolvable(m) == m = NoModel /\ client[1].model_name = NoModel

(* C15: a call of completion or acompletion with a prompt of an unsupported
   shape, or with no model name in the call and none in the client, ends
   with the ValueError of that check, no request having been sent to the
   provider, and leaves every counter of the ledger and the last-call
   snapshot as they were. *)
C15_RefusedBeforeRequest ==
    [][\A p \in Prompts, m \in ModelArgs, r \in Replies :
           /\ CallStep
           /\ p = "other" \/ NoModelResolvable(m)
           /\ Completion(p, m, r) \/ Acompletion(p, m, r)
           => /\ ~TheCall.sent /\ ~TheCall.responded /\ TheCall.text = <<>>
              /\ TheCall.outcome = (IF p = "other" THEN "ValueError: Invalid prompt type"
                                    ELSE "ValueError: Model name is required")
              /\ UNCHANGED ledgerVars]_vars

C15_Witness ==
    /\ client # None /\ client[1].model_name = NoModel
    /\ Len(calls) = 3
    /\ calls[1].outcome = "returned"
    /\ calls[2].api = "completion" /\ calls[2].outcome = "ValueError: Model name is required"
    /\ calls[3].api = "acompletion" /\ calls[3].outcome = "ValueError: Invalid prompt type"
    /\ ~calls[2].sent /\ ~calls[3].sent
    /\ SumCalls(get_usage_summary, DOMAIN get_usage_summary) = 1

(* ---- final answers by reference in a stateful session ---- *)

(* The positions before i of the trace at which a snippet bound the variable. *)
BindingsBefore(i, x) ==
    {j \in 1..(i - 1) : trace[j].kind = "execute" /\ trace[j].name = x}

(* The variable the text's line-anchored FINAL_VAR names. *)
Referenced == lines[Min(AnchoredMarkers("ref"))].name

(* C16: in one session, every final-answer detection over a text whose
   line-anchored marker is FINAL_VAR(v), v bare or in single or double
   quotes, made after some snippet has bound v, returns the trimmed printed
   value of the most recent binding of v at that time; a detection that
   follows a rebinding of v returns the new value. *)
C16_MostRecentBinding ==
    \A i \in 1..Len(trace) :
        (trace[i].kind = "detect" /\ AnchoredMarkers("ref") # {}
            /\ BindingsBefore(i, Referenced) # {})
        => trace[i].value = Some(Strip(trace[Max(BindingsBefore(i, Referenced))].value))

C16_Witness ==
    /\ Len(trace) = 4
    /\ lines[1].body = <<SQuote, "x", SQuote>>
    /\ trace[1].kind = "execute" /\ trace[1].name = <<"x">> /\ trace[1].value = <<"1">>
    /\ trace[2].kind = "detect" /\ trace[2].value = Some(<<"1">>)
    /\ trace[3].kind = "execute" /\ trace[3].name = <<"x">> /\ trace[3].value = <<SP, "2", NL>>
    /\ trace[4].kind = "detect" /\ trace[4].value = Some(<<"2">>)

(* ---- the ledger after a call that failed for missing usage data ---- *)

(* C17 as stated: a call that fails because the provider's response carries
   no usage data leaves the whole ledger as it was: the call counts, the
   token totals, the last-call snapshot and the models get_usage_summary
   reports. *)
C17_FailedCallLeavesLedger ==
    [][CallStep /\ LacksUsage(TheCall) =>
           /\ UNCHANGED ledgerVars
           /\ DOMAIN get_usage_summary' = DOMAIN get_usage_summary]_vars

(* C17, amended: a call that fails because the provider's response carries
   no usage data is counted and changes nothing else: its model's call
   count is one higher after it, get_usage_summary reports that model, with
   the token totals it had before (zero for a model without earlier calls),
   and the token totals, the last-call snapshot and the counts of the other
   models are as they were. *)
C17_FailedCallIsCounted ==
    [][CallStep /\ LacksUsage(TheCall) =>
           LET model == TheCall.model
           IN  /\ model_call_counts' =
                      Put(model_call_counts, model, Get(model_call_counts, model) + 1)
               /\ TokensAndSnapshotUnchanged
               /\ DOMAIN get_usage_summary' = DOMAIN get_usage_summary \cup {model}
               /\ get_usage_summary'[model] =
                      ModelUsageSummary(Get(model_call_counts, model) + 1,
                                        Get(model_input_tokens, model),
                                        Get(model_output_tokens, model))
               /\ \A m \in DOMAIN get_usage_summary \ {model} :
                      get_usage_summary'[m] = get_usage_summary[m]]_vars

C17_Witness ==
    /\ Len(calls) = 2
    /\ calls[1].outcome = "returned" /\ calls[1].model = "m1"
    /\ LacksUsage(calls[2]) /\ calls[2].model = "m2"
    /\ summary = Some(get_usage_summary)
    /\ DOMAIN summary[1] = {"m1", "m2"}
    /\ summary[1]["m2"] = ModelUsageSummary(1, 0, 0)
    /\ summary[1]["m1"].total_calls = 1

(* ---- the literal marker and the lines after it ---- *)

(* The case of C18: the text holds no reference marker, and its first
   line-anchored FINAL(<payload>) ends its line with the closing
   parenthesis. *)
LiteralLineCase ==
    /\ last # None
    /\ \A i \in 1..Len(lines) : lines[i].kind # "ref"
    /\ AnchoredMarkers("lit") # {}
    /\ OnlySpace(lines[Min(AnchoredMarkers("lit"))].tail)

MarkerLine == Min(AnchoredMarkers("lit"))

(* The line ends with a closing parenthesis, whitespace aside. *)
EndsWithClose(l) ==
    LET r == Strip(RenderLine(l)) IN r # <<>> /\ r[Len(r)] = ClosePar

(* The last line, from the marker's line on, that ends with a closing
   parenthesis. *)
LastClosingLine == Max({k \in MarkerLine..Len(lines) : EndsWithClose(lines[k])})

(* The text between the marker's opening parenthesis and the closing
   parenthesis that ends the given line. *)
PayloadThrough(k) ==
    LET r == Text(SubSeq(lines, MarkerLine, k))
        close == Max({p \in 1..Len(r) : r[p] = ClosePar})
    IN  Slice(r, Len(lines[MarkerLine].prefix) + 2, close - 1)

(* C18 as stated: the answer depends only on the marker's line: it is the
   trimmed payload of that line, the same as for the text cut after that
   line, whatever lines follow. *)
C18_OwnLineOnly ==
    LiteralLineCase =>
        /\ last[1].value = Some(Strip(lines[MarkerLine].body))
        /\ last[1].value =
               find_final_answer(Text(SubSeq(lines, 1, MarkerLine)),
                                 last[1].environment).value

(* C18, amended: the answer runs from the marker to the last closing
   parenthesis of the text that ends a line: it is the trimmed payload of
   the marker's line when no later line ends with a closing parenthesis,
   and otherwise takes in every line up to the last one that does. *)
C18_ThroughLastClosingLine ==
    LiteralLineCase =>
        /\ last[1].value = Some(Strip(PayloadThrough(LastClosingLine)))
        /\ (LastClosingLine = MarkerLine =>
               last[1].value = Some(Strip(lines[MarkerLine].body)))
        /\ last[1].requests = <<>>

C18_Witness ==
    /\ LiteralLineCase
    /\ Len(lines) = 2 /\ MarkerLine = 1
    /\ lines[1].body = <<"y">> /\ lines[1].prefix = <<>> /\ lines[1].tail = <<>>
    /\ lines[2].kind = "plain" /\ lines[2].prefix = <<"a">>
    /\ last[1].value = Some(<<"y", ClosePar, NL, "a", "b">>)

====
